---- MODULE Spec2Model ----
(***************************************************************************)
(* A model of sourcewrangler's storage layer:                              *)
(*   Manifest      (sourcewrangler/manifest.py), the in-memory Record Store *)
(*   ManifestFile  (sourcewrangler/manifest.py), the disk-backed Catalog    *)
(*   SourceFolder, TemporaryFolder (sourcewrangler/sourcefolder.py)        *)
(* and of its retriever registry (sourcewrangler/retriever/__init__.py).   *)
(* Record ids are the zero-based list indices of the Python code; the TLA+ *)
(* sequences that hold the records are one-based, hence the "+ 1" below.   *)
(***************************************************************************)
EXTENDS Integers, Sequences, FiniteSets, TLC

\* ------------------------------------------------------------------ bounds

\* Largest number of records a store is grown to by add().
MaxLen == 2

\* Number of processes that construct a ManifestFile on the same path in the
\* locking specification.
NumProcs == 2

\* Largest number of calls of a retriever's _run that are followed.
MaxRuns == 2

\* ----------------------------------------------------------------- records

\* Field values are strings, modelled as sequences of characters.
ValA == <<"a">>

ValBA == <<"b", "a">>

\* The order in which an object's members are written; any fixed order does.
FieldOrder == <<"foo", "bar">>

\* Records (JSON objects, Python dicts) are functions from field names to values.
RecFoo == [foo |-> ValA]

RecFooBar == [foo |-> ValBA, bar |-> ValA]

RecBar == [bar |-> ValBA]

\* The records handed to add() and replace(); RecBar comes into a store by
\* revert only.
Records == {RecFoo, RecFooBar}

\* The records a Catalog is given in the Catalog specifications.
CatRecords == {RecFoo, RecFooBar}

\* ------------------------------------------------------- JSON documents
\* A document is a sequence of tokens <<type, payload>>.

Tok(t, p) == <<t, p>>

RECURSIVE DumpMembers(_, _)
\* The members of object r for the fields FieldOrder[i..], comma separated.
DumpMembers(r, i) ==
    IF i > Len(FieldOrder) THEN <<>>
    ELSE LET f == FieldOrder[i]
             rest == DumpMembers(r, i + 1)
         IN IF f \in DOMAIN r
            THEN <<Tok("key", f), Tok("str", r[f])>>
                 \o (IF rest = <<>> THEN <<>> ELSE <<Tok(",", <<>>)>> \o rest)
            ELSE rest

\* json.dump of one dict.
DumpObj(r) == <<Tok("{", <<>>)>> \o DumpMembers(r, 1) \o <<Tok("}", <<>>)>>

RECURSIVE DumpItems(_, _)
\* The elements m[i..] of a list, comma separated.
DumpItems(m, i) ==
    IF i > Len(m) THEN <<>>
    ELSE DumpObj(m[i]) \o (IF i < Len(m) THEN <<Tok(",", <<>>)>> ELSE <<>>)
         \o DumpItems(m, i + 1)

\* json.dump of the list of records: what Manifest.commit writes to fp.
Dump(m) == <<Tok("[", <<>>)>> \o DumpItems(m, 1) \o <<Tok("]", <<>>)>>

\* The result of a parse step: ok, the value parsed, the next position.
PFail == [ok |-> FALSE, val |-> <<>>, next |-> 0]

TypeAt(d, i) == IF i >= 1 /\ i <= Len(d) THEN d[i][1] ELSE "eof"

RECURSIVE ParseMembers(_, _, _)
\* Parses  key value ("," key value)* "}"  from position i; r holds the
\* members read so far.
ParseMembers(d, i, r) ==
    IF TypeAt(d, i) = "key" /\ TypeAt(d, i + 1) = "str"
    THEN LET r2 == (d[i][2] :> d[i + 1][2]) @@ r
         IN IF TypeAt(d, i + 2) = ","
            THEN ParseMembers(d, i + 3, r2)
            ELSE IF TypeAt(d, i + 2) = "}"
                 THEN [ok |-> TRUE, val |-> r2, next |-> i + 3]
                 ELSE PFail
    ELSE PFail

\* Parses one object starting at position i.
ParseObj(d, i) ==
    IF TypeAt(d, i) # "{" THEN PFail
    ELSE IF TypeAt(d, i + 1) = "}"
         THEN [ok |-> TRUE, val |-> <<>>, next |-> i + 2]
         ELSE ParseMembers(d, i + 1, <<>>)

RECURSIVE ParseItems(_, _, _)
\* Parses  object ("," object)* "]"  from position i; m holds the elements
\* read so far.
ParseItems(d, i, m) ==
    LET o == ParseObj(d, i)
    IN IF ~o.ok THEN PFail
       ELSE IF TypeAt(d, o.next) = ","
            THEN ParseItems(d, o.next + 1, Append(m, o.val))
            ELSE IF TypeAt(d, o.next) = "]"
                 THEN [ok |-> TRUE, val |-> Append(m, o.val), next |-> o.next + 1]
                 ELSE PFail

\* Parses one array element that is an object or a string.
ParseElem(d, i) ==
    IF TypeAt(d, i) = "str"
    THEN [ok |-> TRUE, val |-> d[i][2], next |-> i + 1]
    ELSE ParseObj(d, i)

RECURSIVE ParseElems(_, _, _)
\* Parses  element ("," element)* "]"  from position i; m holds the elements
\* read so far.
ParseElems(d, i, m) ==
    LET e == ParseElem(d, i)
    IN IF ~e.ok THEN PFail
       ELSE IF TypeAt(d, e.next) = ","
            THEN ParseElems(d, e.next + 1, Append(m, e.val))
            ELSE IF TypeAt(d, e.next) = "]"
                 THEN [ok |-> TRUE, val |-> Append(m, e.val), next |-> e.next + 1]
                 ELSE PFail

\* The Python types of the values json.load returns here: a list whose
\* elements are all dicts, a list with an element that is no dict, a dict,
\* a string.
ListOfDict == "list of dict"

ListOfOther == "list"

Dict == "dict"

Unicode == "unicode"

\* json.load of a document: [ok, val, shape]; ok is FALSE where json.load
\* raises ValueError (an empty, truncated or otherwise malformed document).
\* json.load decodes every JSON value, not only an array of objects; shape
\* is the Python type of the value decoded.
Load(d) ==
    LET complete(p) == p.ok /\ p.next = Len(d) + 1
        items == IF TypeAt(d, 1) # "[" THEN PFail
                 ELSE IF TypeAt(d, 2) = "]"
                      THEN [ok |-> TRUE, val |-> <<>>, next |-> 3]
                      ELSE ParseItems(d, 2, <<>>)
        elems == IF TypeAt(d, 1) # "[" THEN PFail ELSE ParseElems(d, 2, <<>>)
        obj == ParseObj(d, 1)
        str == IF TypeAt(d, 1) = "str"
               THEN [ok |-> TRUE, val |-> d[1][2], next |-> 2]
               ELSE PFail
    IN IF complete(items)
       THEN [ok |-> TRUE, val |-> items.val, shape |-> ListOfDict]
       ELSE IF complete(elems)
       THEN [ok |-> TRUE, val |-> elems.val, shape |-> ListOfOther]
       ELSE IF complete(obj)
       THEN [ok |-> TRUE, val |-> obj.val, shape |-> Dict]
       ELSE IF complete(str)
       THEN [ok |-> TRUE, val |-> str.val, shape |-> Unicode]
       ELSE [ok |-> FALSE, val |-> <<>>, shape |-> ListOfDict]

\* ------------------------------------------------- results of a call
\* The outcome of a call is "ok", "pending" (a call in progress) or the
\* error raised.  The Python code raises ValueError at three places that the
\* specification tells apart; they are named after the place.

\* ValueError raised by ManifestFile.__init__ when the path is no file.
NotFound == "ValueError(isfile)"

\* ValueError raised by json.load on a document it cannot decode.
Malformed == "ValueError(json.load)"

\* ValueError raised by the "if not self._mf" checks.
ClosedHandle == "ValueError(not _mf)"

\* FileLockError raised when the exclusive create of the lock file fails.
LockHeld == "FileLockError"

\* IndexError raised by list indexing and by Manifest.replace.
OutOfRange == "IndexError"

\* NameError raised by the unbound name fname in ManifestFile.close.
NameError == "NameError"

\* Return values are tagged pairs.
NoRet == <<"none", 0>>

IntRet(n) == <<"int", n>>

RecRet(r) == <<"rec", r>>

IdsRet(ids) == <<"ids", ids>>

SetRet(S) == <<"set", S>>

\* ---------------------------------------------- Manifest (Record Store)
\* Each operation yields [m, res, ret]: the list afterwards, the outcome and
\* the value returned.

Result(m, res, ret) == [m |-> m, res |-> res, ret |-> ret]

\* Manifest.__len__
M_len(m) == Len(m)

\* Manifest.get: self._manifest[key], Python list indexing: a negative key
\* counts from the end of the list.
M_get(m, key) ==
    IF key >= 0 /\ key < Len(m) THEN Result(m, "ok", RecRet(m[key + 1]))
    ELSE IF key < 0 /\ key >= 0 - Len(m)
         THEN Result(m, "ok", RecRet(m[Len(m) + key + 1]))
         ELSE Result(m, OutOfRange, NoRet)

\* Manifest.values keeping only the value found last.
M_values_LastOnly(m, field) ==
    LET having == {j \in 1..Len(m) : field \in DOMAIN m[j]}
    IN Result(m, "ok",
              SetRet({m[i][field] : i \in {j \in having : \A k \in having : k <= j}}))

\* Manifest.values
M_values(m, field) ==
    Result(m, "ok",
           SetRet({m[i][field] : i \in {j \in 1..Len(m) : field \in DOMAIN m[j]}}))

\* re.match(query, s) in the place of re.search: only a match at the start
\* of s counts.
ReSearch_Match(query, s) ==
    LET anchored == Len(query) > 0 /\ query[1] = "^"
        atoms == IF anchored THEN Tail(query) ELSE query
    IN /\ Len(atoms) <= Len(s)
       /\ \A j \in 1..Len(atoms) : atoms[j] = "." \/ atoms[j] = s[j]

\* re.search(query, s) for patterns made of literal characters, "." and a
\* leading "^": the pattern may match anywhere in s unless anchored.
ReSearch(query, s) ==
    LET anchored == Len(query) > 0 /\ query[1] = "^"
        atoms == IF anchored THEN Tail(query) ELSE query
        starts == IF anchored THEN {1} ELSE 1..(Len(s) + 1)
    IN \E i \in starts :
           /\ i + Len(atoms) - 1 <= Len(s)
           /\ \A j \in 1..Len(atoms) : atoms[j] = "." \/ atoms[j] = s[i + j - 1]

\* Whether the record source matches, as tested in the loop of Manifest.search.
Matches(source, field, query, is_regex) ==
    IF is_regex
    THEN field \in DOMAIN source /\ ReSearch(query, source[field])
    ELSE field \in DOMAIN source /\ source[field] = query

RECURSIVE SearchFrom(_, _, _, _, _)
\* The loop of Manifest.search over enumerate(self._manifest), from list
\* index key on.
SearchFrom(m, key, field, query, is_regex) ==
    IF key >= Len(m) THEN <<>>
    ELSE (IF Matches(m[key + 1], field, query, is_regex) THEN <<key>> ELSE <<>>)
         \o SearchFrom(m, key + 1, field, query, is_regex)

\* Manifest.search
M_search(m, field, query, is_regex) ==
    Result(m, "ok", IdsRet(SearchFrom(m, 0, field, query, is_regex)))

\* Manifest.add with the new record put first instead of last.
M_add_Prepend(m, source) == Result(<<source>> \o m, "ok", IntRet(Len(m)))

\* Manifest.add with the length taken after the append.
M_add_ReturnsNewLen(m, source) == Result(Append(m, source), "ok", IntRet(Len(m) + 1))

\* Manifest.add
M_add(m, source) == Result(Append(m, source), "ok", IntRet(Len(m)))

\* Manifest.replace without the test for a negative key: Python's list
\* assignment then counts a negative key from the end of the list.
M_replace_NegativeIndex(m, key, source) ==
    IF key >= Len(m) \/ key < 0 - Len(m) THEN Result(m, OutOfRange, NoRet)
    ELSE IF key < 0
         THEN Result([m EXCEPT ![Len(m) + key + 1] = source], "ok", NoRet)
         ELSE Result([m EXCEPT ![key + 1] = source], "ok", NoRet)

\* Manifest.replace with the index counted from the end of the list.
M_replace_FromEnd(m, key, source) ==
    IF key >= Len(m) \/ key < 0 THEN Result(m, OutOfRange, NoRet)
    ELSE Result([m EXCEPT ![Len(m) - key] = source], "ok", NoRet)

\* Manifest.replace
M_replace(m, key, source) ==
    IF key >= Len(m) \/ key < 0 THEN Result(m, OutOfRange, NoRet)
    ELSE Result([m EXCEPT ![key + 1] = source], "ok", NoRet)

\* Manifest.commit(fp) writing the records last to first.
M_commit_Reversed(m) == Dump([i \in 1..Len(m) |-> m[Len(m) + 1 - i]])

\* Manifest.commit(fp): json.dump(self._manifest, fp)
M_commit(m) == Dump(m)

\* Manifest.__init__(fp) and Manifest.revert(fp): self._manifest = json.load(fp);
\* when json.load raises, the assignment does not happen.
M_revert(m, doc) ==
    IF Load(doc).ok THEN Result(Load(doc).val, "ok", NoRet)
    ELSE Result(m, Malformed, NoRet)

\* ------------------------------------------------------------- state

VARIABLES
    file,         \* the manifest file on disk: [exists, data]
    lockfile,     \* whether the sentinel fname + ".lock" exists
    pc,           \* per process: where its ManifestFile is in its life
    autocommit,   \* per process: ManifestFile._autocommit
    lock,         \* per process: ManifestFile._lock
    mf,           \* per process: ManifestFile._mf, None or a Manifest
    wpos,         \* per process: tokens of the current commit already on disk
    closeCalled,  \* per process: close() was called on the current object
    store,        \* Manifest._manifest of a stand-alone Record Store
    shape,        \* the Python type of the value store holds
    fp,           \* the file-like object a stand-alone Manifest.commit wrote to
    folder,       \* the directory a SourceFolder is made of, and its members
    retriever,    \* the module retriever: _registry and the calls of _run made
    last          \* the call that was made last and its outcome

catVars == <<file, lockfile, pc, autocommit, lock, mf, wpos, closeCalled>>

storeVars == <<store, shape, fp>>

vars == <<file, lockfile, pc, autocommit, lock, mf, wpos, closeCalled, store, shape,
          fp, folder, retriever, last>>

\* The processes that may hold a ManifestFile on the path.
Procs == 1..NumProcs

\* The process of the single-Catalog specification.
Main == CHOOSE p \in Procs : \A q \in Procs : p <= q

\* self._mf = None
None == [isNone |-> TRUE, m |-> <<>>]

\* self._mf = Manifest(...)
Manifest(m) == [isNone |-> FALSE, m |-> m]

\* The truth value of self._mf as tested by "if not self._mf": None is false,
\* and a Manifest, which defines __len__, is false when it holds no record.
Truthy(x) == ~x.isNone /\ M_len(x.m) # 0

NoFile == [exists |-> FALSE, data |-> <<>>]

FileOf(doc) == [exists |-> TRUE, data |-> doc]

Call(op, h, res, ret, key, rec) ==
    [op |-> op, h |-> h, res |-> res, ret |-> ret, key |-> key, rec |-> rec]

NoRec == <<>>

\* The arguments of a values or search call, kept in the rec field of last.
ValuesArgs(field) == [field |-> field]

SearchArgs(field, query, is_regex) ==
    [field |-> field, query |-> query, is_regex |-> is_regex]

SeqsUpTo(S, n) == UNION {[1..k -> S] : k \in 0..n}

\* A document cut short: what is left of a write that did not finish.
Truncated == SubSeq(Dump(<<RecFoo>>), 1, 3)

\* The filler of the gap a write beyond the end of a file leaves.
Nul == Tok("nul", <<>>)

RECURSIVE Pad(_, _)
Pad(data, n) == IF Len(data) >= n THEN data ELSE Pad(Append(data, Nul), n)

\* write(toks) at offset off of a file holding data.
WriteAt(data, off, toks) ==
    SubSeq(Pad(data, off), 1, off) \o toks
    \o SubSeq(data, off + Len(toks) + 1, Len(data))

\* ------------------------------------- ManifestFile (Persistent Catalog)

\* A process may construct a ManifestFile when it holds none, when its last
\* construction raised, or when it is done with the one it holds.
MayConstruct(h) ==
    pc[h] \in {"new", "failed"} \/ (pc[h] = "live" /\ closeCalled[h])

\* ManifestFile.__init__, the check of the path and the assignments that
\* follow it.  A process that constructs a ManifestFile lets go of the one it
\* held before; no object is left when the constructor raises.
InitCheck(h, ac, lk) ==
    /\ MayConstruct(h)
    /\ IF ~file.exists
       THEN /\ pc' = [pc EXCEPT ![h] = "failed"]
            /\ autocommit' = [autocommit EXCEPT ![h] = FALSE]
            /\ lock' = [lock EXCEPT ![h] = FALSE]
            /\ last' = Call("open", h, NotFound, NoRet, 0, NoRec)
       ELSE /\ pc' = [pc EXCEPT ![h] = "init_lock"]
            /\ autocommit' = [autocommit EXCEPT ![h] = ac]
            /\ lock' = [lock EXCEPT ![h] = lk]
            /\ last' = Call("open", h, "pending", NoRet, 0, NoRec)
    /\ mf' = [mf EXCEPT ![h] = None]
    /\ closeCalled' = [closeCalled EXCEPT ![h] = FALSE]
    /\ UNCHANGED <<file, lockfile, wpos, storeVars, folder, retriever>>

\* The create of the lock file without O_EXCL: it succeeds on an existing file.
ExclusiveCreate_NoExcl(exists) == TRUE

\* os.open(fname + ".lock", O_CREAT | O_EXCL | O_RDONLY): whether the
\* exclusive create succeeds.
ExclusiveCreate(exists) == ~exists

\* ManifestFile.__init__, the locking step.
InitLock(h) ==
    /\ pc[h] = "init_lock"
    /\ IF lock[h] /\ ~ExclusiveCreate(lockfile)
       THEN /\ pc' = [pc EXCEPT ![h] = "failed"]
            /\ autocommit' = [autocommit EXCEPT ![h] = FALSE]
            /\ lock' = [lock EXCEPT ![h] = FALSE]
            /\ last' = Call("open", h, LockHeld, NoRet, 0, NoRec)
            /\ UNCHANGED lockfile
       ELSE /\ pc' = [pc EXCEPT ![h] = "init_load"]
            /\ lockfile' = (lockfile \/ lock[h])
            /\ last' = Call("open", h, "pending", NoRet, 0, NoRec)
            /\ UNCHANGED <<autocommit, lock>>
    /\ UNCHANGED <<file, mf, wpos, closeCalled, storeVars, folder, retriever>>

\* ManifestFile.__init__, the load of the document into a Manifest.
InitLoad(h) ==
    /\ pc[h] = "init_load"
    /\ LET r == M_revert(<<>>, file.data)
       IN IF r.res = "ok"
          THEN /\ pc' = [pc EXCEPT ![h] = "live"]
               /\ mf' = [mf EXCEPT ![h] = Manifest(r.m)]
               /\ last' = Call("open", h, "ok", NoRet, 0, NoRec)
               /\ UNCHANGED <<autocommit, lock>>
          ELSE /\ pc' = [pc EXCEPT ![h] = "failed"]
               /\ autocommit' = [autocommit EXCEPT ![h] = FALSE]
               /\ lock' = [lock EXCEPT ![h] = FALSE]
               /\ last' = Call("open", h, r.res, NoRet, 0, NoRec)
               /\ UNCHANGED mf
    /\ UNCHANGED <<file, lockfile, wpos, closeCalled, storeVars, folder, retriever>>

\* A close that removes fname + ".lock" whenever self._lock is set, also
\* when this ManifestFile was closed before.
CloseResult_RemovesWhenLock(h) ==
    IF lock[h]
    THEN [mf |-> None, lockfile |-> FALSE, res |-> "ok"]
    ELSE [mf |-> None, lockfile |-> lockfile, res |-> "ok"]

\* The body of ManifestFile.close: [mf, lockfile, res].  With self._lock set
\* it evaluates the name fname, which is bound neither in close nor in the
\* module, so NameError is raised before anything is removed or assigned.
CloseResult(h) ==
    IF lock[h]
    THEN [mf |-> mf[h], lockfile |-> lockfile, res |-> NameError]
    ELSE [mf |-> None, lockfile |-> lockfile, res |-> "ok"]

\* ManifestFile.close
Close(h) ==
    /\ pc[h] = "live"
    /\ mf' = [mf EXCEPT ![h] = CloseResult(h).mf]
    /\ lockfile' = CloseResult(h).lockfile
    /\ closeCalled' = [closeCalled EXCEPT ![h] = TRUE]
    /\ last' = Call("close", h, CloseResult(h).res, NoRet, 0, NoRec)
    /\ UNCHANGED <<file, pc, autocommit, lock, wpos, storeVars, folder, retriever>>

\* What leaves a with-block: the error e_type raised in its body ("ok" for
\* none), unless self.close() raises, and then that error.
ExitResult(h, e_type) ==
    IF CloseResult(h).res # "ok" THEN CloseResult(h).res ELSE e_type

\* ManifestFile.__exit__ (__enter__ returns self and changes nothing, so a
\* with-block may be left on every constructed ManifestFile).
Exit(h, e_type) ==
    /\ pc[h] = "live"
    /\ mf' = [mf EXCEPT ![h] = CloseResult(h).mf]
    /\ lockfile' = CloseResult(h).lockfile
    /\ closeCalled' = [closeCalled EXCEPT ![h] = TRUE]
    /\ last' = Call("exit", h, ExitResult(h, e_type), <<"body", e_type>>, 0, NoRec)
    /\ UNCHANGED <<file, pc, autocommit, lock, wpos, storeVars, folder, retriever>>

\* A __getattr__ that commits after every delegated call, whatever the
\* method and the autocommit flag.
AutocommitRuns_Always(h, attr) == TRUE

\* Whether the callable that __getattr__ returns for attr runs self.commit()
\* after the Manifest's method.  In "return lambda ...: ...; self.commit()"
\* the call of commit is a statement of its own after the return: it never
\* runs.
AutocommitRuns(h, attr) == FALSE

\* ManifestFile.__getattr__ and the call of what it returns: r is the result
\* of the Manifest's method attr.
Getattr(h, attr, key, rec, r) ==
    /\ pc[h] = "live"
    /\ IF ~Truthy(mf[h])
       THEN /\ last' = Call(attr, h, ClosedHandle, NoRet, key, rec)
            /\ UNCHANGED <<mf, file>>
       ELSE /\ mf' = [mf EXCEPT ![h] = Manifest(r.m)]
            /\ last' = Call(attr, h, r.res, r.ret, key, rec)
            /\ IF r.res = "ok" /\ AutocommitRuns(h, attr) /\ Truthy(Manifest(r.m))
               THEN file' = FileOf(M_commit(r.m))
               ELSE UNCHANGED file
    /\ UNCHANGED <<lockfile, pc, autocommit, lock, wpos, closeCalled, storeVars, folder, retriever>>

Get(h, key) == Getattr(h, "get", key, NoRec, M_get(mf[h].m, key))

Values(h, field) ==
    Getattr(h, "values", 0, ValuesArgs(field), M_values(mf[h].m, field))

Search(h, field, query, is_regex) ==
    Getattr(h, "search", 0, SearchArgs(field, query, is_regex),
            M_search(mf[h].m, field, query, is_regex))

Add(h, source) ==
    /\ M_len(mf[h].m) < MaxLen
    /\ Getattr(h, "add", 0, source, M_add(mf[h].m, source))

Replace(h, key, source) ==
    Getattr(h, "replace", key, source, M_replace(mf[h].m, key, source))

\* ManifestFile.revert
Revert(h) ==
    /\ pc[h] = "live"
    /\ IF ~Truthy(mf[h])
       THEN /\ last' = Call("revert", h, ClosedHandle, NoRet, 0, NoRec)
            /\ UNCHANGED mf
       ELSE LET r == M_revert(mf[h].m, file.data)
            IN /\ mf' = [mf EXCEPT ![h] = Manifest(r.m)]
               /\ last' = Call("revert", h, r.res, NoRet, 0, NoRec)
    /\ UNCHANGED <<file, lockfile, pc, autocommit, lock, wpos, closeCalled, storeVars, folder, retriever>>

\* ManifestFile.commit up to codecs.open(self._fname, "w"), which truncates
\* the file.
CommitOpen(h) ==
    /\ pc[h] = "live"
    /\ IF ~Truthy(mf[h])
       THEN /\ last' = Call("commit", h, ClosedHandle, NoRet, 0, NoRec)
            /\ UNCHANGED <<file, pc, wpos>>
       ELSE /\ file' = FileOf(<<>>)
            /\ pc' = [pc EXCEPT ![h] = "commit"]
            /\ wpos' = [wpos EXCEPT ![h] = 0]
            /\ last' = Call("commit", h, "pending", NoRet, 0, NoRec)
    /\ UNCHANGED <<lockfile, autocommit, lock, mf, closeCalled, storeVars, folder, retriever>>

\* ManifestFile.commit, inside json.dump: the file object may flush what it
\* has buffered at any point of the document.
CommitFlush(h) ==
    /\ pc[h] = "commit"
    /\ wpos[h] < Len(M_commit(mf[h].m))
    /\ file' = FileOf(WriteAt(file.data, wpos[h], <<M_commit(mf[h].m)[wpos[h] + 1]>>))
    /\ wpos' = [wpos EXCEPT ![h] = wpos[h] + 1]
    /\ UNCHANGED <<lockfile, pc, autocommit, lock, mf, closeCalled, storeVars, folder, retriever, last>>

\* ManifestFile.commit, leaving the with-block: the rest of the document is
\* written and the file is closed.
CommitClose(h) ==
    /\ pc[h] = "commit"
    /\ file' = FileOf(WriteAt(file.data, wpos[h],
                              SubSeq(M_commit(mf[h].m), wpos[h] + 1,
                                     Len(M_commit(mf[h].m)))))
    /\ wpos' = [wpos EXCEPT ![h] = 0]
    /\ pc' = [pc EXCEPT ![h] = "live"]
    /\ last' = Call("commit", h, "ok", NoRet, 0, NoRec)
    /\ UNCHANGED <<lockfile, autocommit, lock, mf, closeCalled, storeVars, folder, retriever>>

\* The process dies inside commit: its ManifestFile is gone, the files stay
\* as they are.
Crash(h) ==
    /\ pc[h] = "commit"
    /\ pc' = [pc EXCEPT ![h] = "new"]
    /\ autocommit' = [autocommit EXCEPT ![h] = FALSE]
    /\ lock' = [lock EXCEPT ![h] = FALSE]
    /\ mf' = [mf EXCEPT ![h] = None]
    /\ wpos' = [wpos EXCEPT ![h] = 0]
    /\ closeCalled' = [closeCalled EXCEPT ![h] = FALSE]
    /\ last' = Call("crash", h, "ok", NoRet, 0, NoRec)
    /\ UNCHANGED <<file, lockfile, storeVars, folder, retriever>>

\* ------------------------------------ calls on a stand-alone Manifest

\* A call of a method that takes self._manifest for a list of dicts. What
\* such a call does on a value of another type is not modelled.
StoreCall(op, key, rec, r) ==
    /\ shape = ListOfDict
    /\ store' = r.m
    /\ last' = Call(op, 0, r.res, r.ret, key, rec)
    /\ UNCHANGED <<catVars, folder, retriever, shape, fp>>

StoreGet(key) == StoreCall("get", key, NoRec, M_get(store, key))

StoreValues(field) ==
    StoreCall("values", 0, ValuesArgs(field), M_values(store, field))

StoreSearch(field, query, is_regex) ==
    StoreCall("search", 0, SearchArgs(field, query, is_regex),
              M_search(store, field, query, is_regex))

StoreAdd(source) ==
    /\ shape = ListOfDict
    /\ M_len(store) < MaxLen
    /\ StoreCall("add", 0, source, M_add(store, source))

StoreReplace(key, source) ==
    StoreCall("replace", key, source, M_replace(store, key, source))

StoreRevert(doc) ==
    LET r == M_revert(store, doc)
    IN /\ store' = r.m
       /\ shape' = IF r.res = "ok" THEN Load(doc).shape ELSE shape
       /\ last' = Call("revert", 0, r.res, r.ret, 0, NoRec)
       /\ UNCHANGED <<catVars, folder, retriever, fp>>

StoreCommit ==
    /\ shape = ListOfDict
    /\ fp' = M_commit(store)
    /\ last' = Call("commit", 0, "ok", NoRet, 0, NoRec)
    /\ UNCHANGED <<catVars, folder, retriever, store, shape>>

\* ------------------------------ SourceFolder (sourcewrangler/sourcefolder.py)
\* folder holds what is at the path of a source folder and at its members
\* rbay, .tmp and manifest.json: "none", "dir" or "file" each, the document
\* in manifest.json, and the names of the files in rbay and in .tmp.

\* A path at which nothing exists.
NoFolder ==
    [root |-> "none", rbay |-> "none", tmp |-> "none", manifest |-> "none",
     data |-> <<>>, rbayFiles |-> {}, tmpFiles |-> {}]

\* "return new TemporaryFile(...)" in TemporaryFolder.allocate is not a
\* Python statement, so compiling sourcefolder.py raises SyntaxError: the
\* module cannot be imported and none of its classes can be used.
ModuleCompiles == FALSE

SyntaxError == "SyntaxError"

KeyError == "KeyError"

OSError == "OSError"

IOError == "IOError"

Incomplete == "IncompleteSourceFolderError"

BoolRet(b) == <<"bool", b>>

\* What a call does to the folder, its outcome and the value returned.
FolderResult(f, res, ret) == [folder |-> f, res |-> res, ret |-> ret]

\* SourceFolder.check
SourceFolder_check(f) ==
    /\ f.root = "dir"
    /\ f.rbay = "dir"
    /\ f.tmp = "dir"
    /\ f.manifest = "file"

\* SourceFolder._ensure_directory_exists on the path of member: os.makedirs
\* when nothing is there, os.error when something that is no directory is.
SourceFolder_ensure_directory_exists(f, member) ==
    IF f[member] = "none"
    THEN FolderResult([f EXCEPT ![member] = "dir"], "ok", NoRet)
    ELSE IF f[member] = "dir" THEN FolderResult(f, "ok", NoRet)
         ELSE FolderResult(f, OSError, NoRet)

\* SourceFolder._ensure_file_exists on manifest.json. When nothing is there
\* it calls _ensure_directory_exists on "manifest.json/..": os.makedirs of
\* that path makes the directory manifest.json and then raises OSError,
\* because ".." of it exists.
SourceFolder_ensure_file_exists(f) ==
    IF f.manifest = "file" THEN FolderResult(f, "ok", NoRet)
    ELSE IF f.manifest = "dir" THEN FolderResult(f, OSError, NoRet)
         ELSE FolderResult([f EXCEPT !.manifest = "dir"], OSError, NoRet)

\* The end of SourceFolder.spawn: manifest.json is opened in the default
\* mode "r", so that write("[]") raises IOError and nothing is written.
SourceFolder_write_initial(f) == FolderResult(f, IOError, NoRet)

\* The body of SourceFolder.spawn.
SourceFolder_spawn(f) ==
    LET r1 == SourceFolder_ensure_directory_exists(f, "root")
        r2 == SourceFolder_ensure_directory_exists(r1.folder, "rbay")
        r3 == SourceFolder_ensure_directory_exists(r2.folder, "tmp")
        r4 == SourceFolder_ensure_file_exists(r3.folder)
    IN IF r1.res # "ok" THEN r1
       ELSE IF r2.res # "ok" THEN r2
       ELSE IF r3.res # "ok" THEN r3
       ELSE IF r4.res # "ok" THEN r4
       ELSE SourceFolder_write_initial(r4.folder)

\* The digits of str(n).
DigitChars == <<"0", "1", "2", "3", "4", "5", "6", "7", "8", "9">>

RECURSIVE Decimal(_)
\* str(n) for an integer n >= 0.
Decimal(n) ==
    IF n < 10 THEN <<DigitChars[n + 1]>>
    ELSE Decimal(n \div 10) \o <<DigitChars[(n % 10) + 1]>>

\* str(key) for a key <<"int", n>> or <<"str", s>>.
Str(key) == IF key[1] = "int" THEN Decimal(key[2]) ELSE key[2]

\* SourceFolder.available: os.listdir(_fname) names a variable that does not
\* exist (the attribute is self._fname), so the call raises NameError.
SourceFolder_available(f) == FolderResult(f, NameError, NoRet)

\* SourceFolder.get: KeyError for a key whose str() is empty; for any other
\* key the loop is over self.available(), which raises.
SourceFolder_get(f, key) ==
    IF Str(key) = <<>> THEN FolderResult(f, KeyError, NoRet)
    ELSE SourceFolder_available(f)

\* TemporaryFolder.allocate: the first pass of the loop evaluates _fname,
\* which does not exist; NameError is not caught by "except OSError" and no
\* file is created.
TemporaryFolder_allocate(f, suffix) == FolderResult(f, NameError, NoRet)

\* SourceFolder.__init__ followed by a call on the object made.
OnSourceFolder(f, r) ==
    IF SourceFolder_check(f) THEN r ELSE FolderResult(f, Incomplete, NoRet)

\* A use of the module sourcefolder: what the call would do wherever the
\* module compiles, SyntaxError and no effect where it does not.
FolderCall(op, rec, r) ==
    /\ folder' = IF ModuleCompiles THEN r.folder ELSE folder
    /\ last' = Call(op, 0, IF ModuleCompiles THEN r.res ELSE SyntaxError,
                     IF ModuleCompiles THEN r.ret ELSE NoRet, 0, rec)
    /\ UNCHANGED <<catVars, storeVars, retriever>>

\* The argument of a get or allocate call, kept in the rec field of last.
FolderArgs(arg) == [arg |-> arg]

Spawn == FolderCall("spawn", NoRec, SourceFolder_spawn(folder))

Check ==
    FolderCall("check", NoRec, FolderResult(folder, "ok", BoolRet(SourceFolder_check(folder))))

FolderGet(key) ==
    FolderCall("folder_get", FolderArgs(key), OnSourceFolder(folder, SourceFolder_get(folder, key)))

Allocate(suffix) ==
    FolderCall("allocate", FolderArgs(suffix),
               OnSourceFolder(folder, TemporaryFolder_allocate(folder, suffix)))

\* --------------------------- retrievers (sourcewrangler/retriever/__init__.py)

UnrunnableRetrieverError == "UnrunnableRetrieverError"

DuplicateFieldError == "DuplicateFieldError"

InvalidRetrievalOptionsError == "InvalidRetrievalOptionsError"

InvalidProtocolError == "InvalidProtocolError"

\* A Python dict is a function from its keys; {} and d[k] = v.
EmptyDict == [k \in {} |-> 0]

Put(d, k, v) == [x \in DOMAIN d \cup {k} |-> IF x = k THEN v ELSE d[x]]

\* The orders in which iteritems() may yield the keys or values S of a dict.
RECURSIVE Orders(_)
Orders(S) ==
    IF S = {} THEN {<<>>}
    ELSE UNION {{<<x>> \o s : s \in Orders(S \ {x})} : x \in S}

\* A function of a class body that carries neither marker.
Unset == "no attribute"

Func(name) ==
    [name |-> name, required_field |-> Unset, optional_field |-> Unset]

\* @required_field(name) and @optional_field(name) set the marker on func.
required_field(name, func) == [func EXCEPT !.required_field = name]

optional_field(name, func) == [func EXCEPT !.optional_field = name]

\* The value a validator of the class bodies below returns for a value;
\* values carry their Python type, as <<type, value>>.
Validator(name, value) ==
    CASE name \in {"validate_must_be_int", "validate_may_supply_int"}
           -> value[1] = "int"
      [] name \in {"validate_foo", "validate_fooo"} -> TRUE

\* A class body: whether it defines _run, what its _run returns, and the
\* functions in its __dict__.
ClassBody(protocol, has_run, media, dict) ==
    [protocol |-> protocol, has_run |-> has_run, media |-> media,
     dict |-> dict]

TestHasNoRunRetriever == ClassBody("test_has_no_run", FALSE, "", {})

TestDuplicateFieldRetriever ==
    ClassBody("test_duplicate_field", TRUE, "",
              {required_field("foo", Func("validate_foo")),
               optional_field("foo", Func("validate_fooo"))})

TestBasicRetriever == ClassBody("test_basic", TRUE, "text/plain", {})

TestRequiredRetriever ==
    ClassBody("test_required", TRUE, "text/plain",
              {required_field("must_be_int", Func("validate_must_be_int"))})

\* A retriever with two required fields and an optional one.
FullRetriever ==
    ClassBody("full", TRUE, "text/html",
              {required_field("must_be_int", Func("validate_must_be_int")),
               required_field("foo", Func("validate_foo")),
               optional_field("may_supply_int",
                              Func("validate_may_supply_int"))})

\* The _run of the class bodies: a file in the temp folder and a media type.
_run(cls, retrieval, tmp_folder) ==
    <<"pair", <<"pretend this is a temp file", cls.media>>>>

\* The loop of the decorator over cls.__dict__; c is [required, optional,
\* res] and items the functions in the order iteritems() yields them.
RECURSIVE ScanDict(_, _, _)
ScanDict(c, items, i) ==
    IF i > Len(items) THEN c
    ELSE LET method == items[i] IN
         IF method.required_field # Unset
         THEN IF \/ method.required_field \in DOMAIN c.required
                 \/ method.required_field \in DOMAIN c.optional
              THEN [c EXCEPT !.res = DuplicateFieldError]
              ELSE ScanDict([c EXCEPT !.required =
                               Put(@, method.required_field, method.name)],
                            items, i + 1)
         ELSE IF method.optional_field # Unset
         THEN IF \/ method.optional_field \in DOMAIN c.required
                 \/ method.optional_field \in DOMAIN c.optional
              THEN [c EXCEPT !.res = DuplicateFieldError]
              ELSE ScanDict([c EXCEPT !.optional =
                               Put(@, method.optional_field, method.name)],
                            items, i + 1)
         ELSE ScanDict(c, items, i + 1)

\* register_retriever(protocol)(cls): [registry, res].
register_retriever(registry, protocol, cls, items) ==
    IF ~cls.has_run
    THEN [registry |-> registry, res |-> UnrunnableRetrieverError]
    ELSE LET c == ScanDict([required |-> EmptyDict, optional |-> EmptyDict,
                            res |-> "ok"], items, 1)
         IN  IF c.res # "ok"
             THEN [registry |-> registry, res |-> c.res]
             ELSE [registry |-> Put(registry, protocol,
                                    [protocol |-> protocol,
                                     media |-> cls.media,
                                     required |-> c.required,
                                     optional |-> c.optional]),
                   res |-> "ok"]

\* A validate that is content with any number of required fields.
AllRequiredSeen_Always(cls, num_required_fields) == TRUE

\* The last line of validate: did we catch 'em all?
AllRequiredSeen(cls, num_required_fields) ==
    num_required_fields = Cardinality(DOMAIN cls.required)

\* The loop of validate over retrieval.iteritems(); items is the order in
\* which the fields come.
RECURSIVE ValidateFrom(_, _, _, _, _)
ValidateFrom(cls, retrieval, items, i, num_required_fields) ==
    IF i > Len(items) THEN AllRequiredSeen(cls, num_required_fields)
    ELSE LET field == items[i]
             value == retrieval[field]
         IN  IF field \in DOMAIN cls.required
             THEN IF ~Validator(cls.required[field], value)
                  THEN FALSE
                  ELSE ValidateFrom(cls, retrieval, items, i + 1,
                                    num_required_fields + 1)
             ELSE IF field \in DOMAIN cls.optional
             THEN IF ~Validator(cls.optional[field], value)
                  THEN FALSE
                  ELSE ValidateFrom(cls, retrieval, items, i + 1,
                                    num_required_fields)
             ELSE FALSE

validate(cls, retrieval, items) == ValidateFrom(cls, retrieval, items, 1, 0)

\* A run that calls _run without validating the retrieval.
run_Unchecked(cls, retrieval, tmp_folder, items) ==
    [res |-> "ok", ret |-> _run(cls, retrieval, tmp_folder), invoked |-> 1]

\* run: [res, ret, invoked], the outcome, the value returned and the number
\* of calls of _run made.
run(cls, retrieval, tmp_folder, items) ==
    IF ~validate(cls, retrieval, items)
    THEN [res |-> InvalidRetrievalOptionsError, ret |-> NoRet, invoked |-> 0]
    ELSE [res |-> "ok", ret |-> _run(cls, retrieval, tmp_folder),
          invoked |-> 1]

\* The module as imported: _registry = {} and no _run called yet.
NoRetrievers == [registry |-> EmptyDict, runs |-> 0]

\* The arguments of a call on the module retriever, in the rec field of last.
RetrieverArgs(protocol, retrieval) ==
    [protocol |-> protocol, retrieval |-> retrieval]

\* A class statement decorated with @register_retriever(cls.protocol).
Register(cls, items) ==
    LET r == register_retriever(retriever.registry, cls.protocol, cls, items)
    IN  /\ retriever' = [retriever EXCEPT !.registry = r.registry]
        /\ last' = Call("register_retriever", 0, r.res, NoRet, 0,
                        RetrieverArgs(cls.protocol, EmptyDict))
        /\ UNCHANGED <<catVars, storeVars, folder>>

\* get_retriever(protocol).
GetRetriever(protocol) ==
    /\ last' = IF protocol \in DOMAIN retriever.registry
               THEN Call("get_retriever", 0, "ok",
                         RecRet(retriever.registry[protocol]), 0,
                         RetrieverArgs(protocol, EmptyDict))
               ELSE Call("get_retriever", 0, InvalidProtocolError, NoRet, 0,
                         RetrieverArgs(protocol, EmptyDict))
    /\ UNCHANGED <<catVars, storeVars, folder, retriever>>

\* get_retriever(protocol).validate(retrieval).
Validate(protocol, retrieval, items) ==
    /\ protocol \in DOMAIN retriever.registry
    /\ last' = Call("validate", 0, "ok",
                    BoolRet(validate(retriever.registry[protocol], retrieval,
                                     items)),
                    0, RetrieverArgs(protocol, retrieval))
    /\ UNCHANGED <<catVars, storeVars, folder, retriever>>

\* get_retriever(protocol)().run(retrieval, tmp_folder).
Run(protocol, retrieval, tmp_folder, items) ==
    /\ protocol \in DOMAIN retriever.registry
    /\ retriever.runs < MaxRuns
    /\ LET r == run(retriever.registry[protocol], retrieval, tmp_folder,
                    items)
       IN  /\ retriever' = [retriever EXCEPT !.runs = @ + r.invoked]
           /\ last' = Call("run", 0, r.res, r.ret, 0,
                           RetrieverArgs(protocol, retrieval))
    /\ UNCHANGED <<catVars, storeVars, folder>>

\* ------------------------------------------------------ specifications

\* The keys, fields and queries the calls are made with.
Keys == (0 - MaxLen)..MaxLen

CatKeys == (0 - 1)..MaxLen

Fields == {"foo", "bar"}

Queries == {ValA, ValBA, <<"^", "b">>, <<".">>}

\* Documents that are complete JSON but no array of objects: an object, a
\* string, an array with a string among its elements.
OtherDocs ==
    {DumpObj(RecFoo),
     <<Tok("str", ValA)>>,
     <<Tok("[", <<>>)>> \o DumpObj(RecFoo)
         \o <<Tok(",", <<>>), Tok("str", ValA), Tok("]", <<>>)>>}

\* The documents a stand-alone Manifest reverts to.
StoreDocs == {Dump(<<>>), Dump(<<RecBar>>), Truncated} \cup OtherDocs

\* The documents the manifest file may hold before any ManifestFile is made,
\* all of them arrays of objects.
CatDocs == {Dump(m) : m \in SeqsUpTo(CatRecords, 1)}

InitCatalog ==
    /\ lockfile = FALSE
    /\ pc = [h \in Procs |-> "new"]
    /\ autocommit = [h \in Procs |-> FALSE]
    /\ lock = [h \in Procs |-> FALSE]
    /\ mf = [h \in Procs |-> None]
    /\ wpos = [h \in Procs |-> 0]
    /\ closeCalled = [h \in Procs |-> FALSE]
    /\ last = Call("none", 0, "ok", NoRet, 0, NoRec)

\* One process and its Catalog.
Init ==
    /\ InitCatalog
    /\ file \in {FileOf(d) : d \in CatDocs} \cup {NoFile}
    /\ store = <<>>
    /\ shape = ListOfDict
    /\ fp = <<>>
    /\ folder = NoFolder
    /\ retriever = NoRetrievers

Next ==
    \/ \E ac \in BOOLEAN, lk \in BOOLEAN : InitCheck(Main, ac, lk)
    \/ InitLock(Main)
    \/ InitLoad(Main)
    \/ Close(Main)
    \/ \E e \in {"ok", "BodyError"} : Exit(Main, e)
    \/ \E k \in CatKeys : Get(Main, k)
    \/ Values(Main, "foo")
    \/ \E re \in BOOLEAN : Search(Main, "foo", ValA, re)
    \/ \E r \in CatRecords : Add(Main, r)
    \/ \E k \in CatKeys, r \in CatRecords : Replace(Main, k, r)
    \/ Revert(Main)
    \/ CommitOpen(Main)
    \/ CommitFlush(Main)
    \/ CommitClose(Main)
    \/ Crash(Main)

Spec == Init /\ [][Next]_vars

\* Several processes that open and close the same path.
LockInit ==
    /\ InitCatalog
    /\ file \in {FileOf(Dump(<<RecFoo>>)), FileOf(Truncated), NoFile}
    /\ store = <<>>
    /\ shape = ListOfDict
    /\ fp = <<>>
    /\ folder = NoFolder
    /\ retriever = NoRetrievers

LockNext ==
    \E h \in Procs :
        \/ \E lk \in BOOLEAN : InitCheck(h, TRUE, lk)
        \/ InitLock(h)
        \/ InitLoad(h)
        \/ Close(h)
        \/ \E e \in {"ok", "BodyError"} : Exit(h, e)

LockSpec == LockInit /\ [][LockNext]_vars

\* The documents a stand-alone Manifest is constructed from.
InitDocs == {Dump(m) : m \in SeqsUpTo(Records, MaxLen)} \cup OtherDocs

\* A stand-alone Record Store, constructed from a document without error.
StoreInit ==
    /\ InitCatalog
    /\ file = NoFile
    /\ \E d \in InitDocs :
           /\ M_revert(<<>>, d).res = "ok"
           /\ store = M_revert(<<>>, d).m
           /\ shape = Load(d).shape
    /\ fp = <<>>
    /\ folder = NoFolder
    /\ retriever = NoRetrievers

StoreNext ==
    \/ \E k \in Keys : StoreGet(k)
    \/ \E f \in Fields : StoreValues(f)
    \/ \E f \in Fields, q \in Queries, re \in BOOLEAN : StoreSearch(f, q, re)
    \/ \E r \in Records : StoreAdd(r)
    \/ \E k \in Keys, r \in Records : StoreReplace(k, r)
    \/ \E d \in StoreDocs : StoreRevert(d)
    \/ StoreCommit

StoreSpec == StoreInit /\ [][StoreNext]_vars

\* A program that reaches its records through a Catalog when the manifest
\* file exists and through a stand-alone Record Store when it does not.
EitherInit == Init \/ StoreInit

EitherNext ==
    \/ file.exists /\ Next
    \/ ~file.exists /\ StoreNext

EitherSpec == EitherInit /\ [][EitherNext]_vars

\* The names of the files found in the receiving bay and in .tmp.
RbayNames == {<<"5", "-", "n">>, <<"1", "5">>}

TmpNames == {<<"t">>}

\* The documents found in manifest.json.
FolderDocs == {Dump(<<>>), Dump(<<RecFoo>>)}

\* What may be at the path before a call: members exist only inside
\* directories, and only a manifest.json that is a file holds a document.
FolderStates ==
    {f \in [root : {"none", "dir", "file"}, rbay : {"none", "dir", "file"},
            tmp : {"none", "dir", "file"}, manifest : {"none", "dir", "file"},
            data : FolderDocs \cup {<<>>}, rbayFiles : SUBSET RbayNames,
            tmpFiles : SUBSET TmpNames] :
        /\ f.root # "dir"
           => (f.rbay = "none" /\ f.tmp = "none" /\ f.manifest = "none")
        /\ f.rbay # "dir" => f.rbayFiles = {}
        /\ f.tmp # "dir" => f.tmpFiles = {}
        /\ (f.manifest = "file") = (f.data \in FolderDocs)}

\* The keys of get and the suffixes of allocate.
FolderKeys == {<<"str", <<>>>>, <<"int", 5>>, <<"int", 15>>, <<"int", 7>>}

Suffixes == {<<".", "t">>}

\* A program that uses a source folder.
FolderInit ==
    /\ InitCatalog
    /\ file = NoFile
    /\ store = <<>>
    /\ shape = ListOfDict
    /\ fp = <<>>
    /\ folder \in FolderStates
    /\ retriever = NoRetrievers

FolderNext ==
    \/ Spawn
    \/ Check
    \/ \E k \in FolderKeys : FolderGet(k)
    \/ \E x \in Suffixes : Allocate(x)

FolderSpec == FolderInit /\ [][FolderNext]_vars

\* The class bodies a program decorates, the protocols it asks for and the
\* retrieval objects it passes.
ClassBodies ==
    {TestHasNoRunRetriever, TestDuplicateFieldRetriever, TestBasicRetriever,
     TestRequiredRetriever, FullRetriever}

Protocols == {cls.protocol : cls \in ClassBodies} \cup {"http"}

RetrievalFields == {"must_be_int", "foo", "may_supply_int", "spurious_field"}

FieldValues(field) ==
    CASE field = "must_be_int" -> {<<"int", 42>>, <<"str", "no, screw you">>}
      [] field = "foo" -> {<<"str", "bar">>}
      [] field = "may_supply_int" -> {<<"int", 47>>, <<"str", "Robert">>}
      [] field = "spurious_field" -> {<<"str", "lolol">>}

Retrievals ==
    UNION {{r \in [D -> UNION {FieldValues(f) : f \in D}] :
               \A f \in D : r[f] \in FieldValues(f)} :
           D \in SUBSET RetrievalFields}

\* A program that registers retrievers and uses them.
RetrieverInit ==
    /\ InitCatalog
    /\ file = NoFile
    /\ store = <<>>
    /\ shape = ListOfDict
    /\ fp = <<>>
    /\ folder = NoFolder
    /\ retriever = NoRetrievers

RetrieverNext ==
    \/ \E cls \in ClassBodies : \E items \in Orders(cls.dict) :
           Register(cls, items)
    \/ \E p \in Protocols : GetRetriever(p)
    \/ \E p \in Protocols : \E r \in Retrievals :
           \E items \in Orders(DOMAIN r) : Validate(p, r, items)
    \/ \E p \in Protocols : \E r \in Retrievals :
           \E items \in Orders(DOMAIN r) : Run(p, r, None, items)

RetrieverSpec == RetrieverInit /\ [][RetrieverNext]_vars

\* -------------------------------------------------------------- claims

\* The processes that hold a lock-enabled ManifestFile that is open.
OpenLocked == {h \in Procs : pc[h] = "live" /\ lock[h] /\ ~mf[h].isNone}

\* C1: at most one lock-enabled Catalog is open on the path at any time, and
\* a construction that reaches the exclusive create while the sentinel exists
\* raises FileLockError and leaves the process without a Catalog.
C1_MutualExclusion ==
    [][/\ Cardinality(OpenLocked') <= 1
       /\ \A h \in Procs :
              (pc[h] = "init_lock" /\ lock[h] /\ lockfile /\ pc'[h] # pc[h])
              => /\ pc'[h] = "failed"
                 /\ mf'[h].isNone
                 /\ last' = Call("open", h, LockHeld, NoRet, 0, NoRec)]_vars

\* C1 witness: one process holds an open lock-enabled Catalog and the
\* construction of another has just failed with FileLockError.
C1_Witness ==
    \E h \in Procs, g \in Procs :
        /\ h \in OpenLocked
        /\ g # h
        /\ pc[g] = "failed"
        /\ last = Call("open", g, LockHeld, NoRet, 0, NoRec)

\* C2: after close() was called on a lock-enabled Catalog the call has
\* returned normally, the sentinel is absent and the exclusive create of a
\* following open(path, lock=true) succeeds.
C2_LockRelease ==
    (last.op = "close" /\ lock[last.h])
    => (last.res = "ok" /\ ~lockfile /\ ExclusiveCreate(lockfile))

\* C3: after a with-block on a lock-enabled Catalog was left, the Catalog is
\* closed, the sentinel is absent, and what propagates is the error raised
\* in the block (nothing when the block raised nothing).
C3_ScopedRelease ==
    (last.op = "exit" /\ lock[last.h])
    => (mf[last.h].isNone /\ ~lockfile /\ last.res = last.ret[2])

\* The calls a Catalog takes besides close.
CatalogOps == {"get", "values", "search", "add", "replace", "revert", "commit"}

\* C4: a call made on a Catalog after close() was called on it fails with
\* ClosedHandle and leaves the manifest file as it was.
C4_ClosedHandleFails ==
    [][(last'.op \in CatalogOps /\ closeCalled[last'.h])
       => (last'.res = ClosedHandle /\ file' = file)]_vars

\* C5: close() on a Catalog on which close() was called before does not
\* fail and changes neither the Catalog nor the files.
C5_CloseIdempotent ==
    [][(last'.op = "close" /\ closeCalled[last'.h])
       => /\ last'.res = "ok"
          /\ mf' = mf
          /\ file' = file
          /\ lockfile' = lockfile]_vars

\* C6: after a successful add or replace on a Catalog with autocommit, a
\* fresh load of the manifest file yields the Catalog's record sequence.
C6_AutocommitWriteThrough ==
    (last.op \in {"add", "replace"} /\ last.res = "ok" /\ autocommit[last.h])
    => (Load(file.data).ok /\ Load(file.data).val = mf[last.h].m)

\* C7: whenever the manifest file exists it holds a complete JSON array,
\* also in the middle of a commit and after a crash during one.
C7_AtomicVisibility == file.exists => Load(file.data).ok

\* C8: once commit() on an open Catalog has returned, a fresh load of the
\* manifest file yields the Catalog's record sequence, record by record.
C8_RoundTrip ==
    (last.op = "commit" /\ last.res # "pending" /\ ~mf[last.h].isNone)
    => /\ Load(file.data).ok
       /\ Len(Load(file.data).val) = Len(mf[last.h].m)
       /\ \A i \in 1..Len(mf[last.h].m) : Load(file.data).val[i] = mf[last.h].m[i]

\* C8 witness: a commit of two different records has completed.
C8_Witness ==
    /\ last.op = "commit"
    /\ last.res = "ok"
    /\ Len(mf[last.h].m) = 2
    /\ mf[last.h].m[1] # mf[last.h].m[2]

\* C9: a call other than revert never shrinks the store, and changes the
\* record at position i only when it is a successful replace(i, r).
C9_PositionStability ==
    [][last'.op # "revert"
       => /\ Len(store') >= Len(store)
          /\ \A i \in 1..Len(store) :
                 store'[i] # store[i]
                 => last' = Call("replace", 0, "ok", NoRet, i - 1, store'[i])]_vars

\* C9 witness: a record was added to a store that held one already.
C9_Witness ==
    /\ last.op = "add"
    /\ Len(store) >= 2
    /\ store[1] # store[Len(store)]

\* C10: add(r) on a store of size n returns n, makes the size n + 1, leaves
\* positions 0..n-1 as they were, and get(n) then returns r.
C10_AddGet ==
    [][last'.op = "add"
       => /\ last'.res = "ok"
          /\ last'.ret = IntRet(Len(store))
          /\ Len(store') = Len(store) + 1
          /\ M_get(store', Len(store)).ret = RecRet(last'.rec)
          /\ \A i \in 1..Len(store) : store'[i] = store[i]]_vars

\* C10 witness: add on a non-empty store returned the old size.
C10_Witness ==
    /\ last.op = "add"
    /\ last.ret = IntRet(1)
    /\ Len(store) = 2
    /\ store[2] = last.rec

\* C11: replace(id, r) with 0 <= id < size succeeds; afterwards get(id)
\* returns r, the size is the same and every other position holds the record
\* it held before.
C11_ReplaceFrame ==
    [][(last'.op = "replace" /\ last'.key >= 0 /\ last'.key < Len(store))
       => /\ last'.res = "ok"
          /\ M_get(store', last'.key) = Result(store', "ok", RecRet(last'.rec))
          /\ Len(store') = Len(store)
          /\ \A j \in 0..(Len(store) - 1) :
                 j # last'.key => M_get(store', j).ret = M_get(store, j).ret]_vars

\* C11 witness: the second of two records was replaced by a record that
\* differs from the first.
C11_Witness ==
    /\ last.op = "replace"
    /\ last.res = "ok"
    /\ last.key = 1
    /\ Len(store) = 2
    /\ store[2] = last.rec
    /\ store[1] # store[2]

\* C12: get(id) returns the record at position id when 0 <= id < size and
\* fails with IndexError for every other id, the negative ones included.
C12_GetRange ==
    last.op = "get"
    => IF last.key >= 0 /\ last.key < Len(store)
       THEN last.res = "ok" /\ last.ret = RecRet(store[last.key + 1])
       ELSE last.res = OutOfRange /\ last.ret = NoRet

C13_WitnessStore ==
    /\ last.op = "replace"
    /\ last.h = 0
    /\ last.key >= Len(store)
    /\ last.res = OutOfRange
    /\ Len(store) > 0

\* The ids a search call returned, as a set.
Returned(ids) == {ids[i] : i \in 1..Len(ids)}

\* The pattern query occurs in s: some stretch of s agrees with the pattern
\* character by character, "." standing for any character; a pattern that
\* begins with "^" only occurs at the start of s.
PatternOccurs(query, s) ==
    LET anchored == Len(query) > 0 /\ query[1] = "^"
        body == IF anchored THEN Tail(query) ELSE query
    IN \E a \in 1..(Len(s) + 1) : \E b \in 0..Len(s) :
           /\ anchored => a = 1
           /\ b - a + 1 = Len(body)
           /\ \A j \in 1..Len(body) :
                  body[j] = "." \/ body[j] = SubSeq(s, a, b)[j]

\* C14: search(field, query, is_regex) returns a strictly ascending list of
\* ids; without is_regex they are exactly the ids whose record defines field
\* with a value equal to query, with is_regex exactly those whose record
\* defines field with a value in which the pattern occurs.
C14_Search ==
    last.op = "search"
    => LET ids == last.ret[2]
           f == last.rec.field
           q == last.rec.query
       IN /\ last.res = "ok"
          /\ last.ret[1] = "ids"
          /\ \A i \in 1..Len(ids) : \A j \in 1..Len(ids) :
                 i < j => ids[i] < ids[j]
          /\ Returned(ids)
                 = {k \in 0..(Len(store) - 1) :
                        /\ f \in DOMAIN store[k + 1]
                        /\ IF last.rec.is_regex
                           THEN PatternOccurs(q, store[k + 1][f])
                           ELSE store[k + 1][f] = q}

\* C14 witness: a pattern search returned both ids of a store whose second
\* record holds the pattern past the start of the value.
C14_Witness ==
    /\ last.op = "search"
    /\ last.rec = SearchArgs("foo", ValA, TRUE)
    /\ store = <<RecFoo, RecFooBar>>
    /\ last.ret = IdsRet(<<0, 1>>)

\* C14 witness of the rest of the case: a search by equality on a store with
\* a record that lacks the field returned the one id that matches.
C14_WitnessExact ==
    /\ last.op = "search"
    /\ last.rec = SearchArgs("foo", ValA, FALSE)
    /\ store = <<RecBar, RecFoo>>
    /\ last.ret = IdsRet(<<1>>)

\* C15: values(field) succeeds and returns exactly the values that the
\* records defining field hold for it: every returned value is held by some
\* record, every record with the field has its value returned, and the
\* records without the field change nothing.
C15_Values ==
    last.op = "values"
    => LET f == last.rec.field
           found == last.ret[2]
       IN /\ last.res = "ok"
          /\ last.ret[1] = "set"
          /\ \A v \in found :
                 \E i \in 1..Len(store) : f \in DOMAIN store[i] /\ store[i][f] = v
          /\ \A i \in 1..Len(store) :
                 f \in DOMAIN store[i] => store[i][f] \in found

\* C15 witness: values on a store of two records of which one lacks the
\* field returned the value of the other.
C15_Witness ==
    /\ last.op = "values"
    /\ last.rec = ValuesArgs("bar")
    /\ store = <<RecFoo, RecFooBar>>
    /\ last.ret = SetRet({ValA})

\* C16: a document that is not a JSON array of objects is refused with
\* ValueError at construction and by revert, so that a Manifest that was
\* constructed or reverted without error holds a list of dicts.
C16_MalformedRefused == shape = ListOfDict

\* The number of names TemporaryFolder.allocate tries for one second and
\* suffix: xrange(1000).
Attempts == 1000

\* C17: allocate(suffix) on a source folder whose temporary area holds fewer
\* than 1000 files succeeds: it creates one file that was not there and
\* returns its name. With the 1000 names of the second taken it fails with
\* OSError and creates nothing.
C17_NameCeiling ==
    [][(last'.op = "allocate" /\ SourceFolder_check(folder))
       => IF Cardinality(folder.tmpFiles) < Attempts
          THEN /\ last'.res = "ok"
               /\ last'.ret[1] = "name"
               /\ last'.ret[2] \notin folder.tmpFiles
               /\ folder' = [folder EXCEPT
                                !.tmpFiles = folder.tmpFiles \cup {last'.ret[2]}]
          ELSE /\ last'.res = OSError
               /\ folder' = folder]_vars

\* Whether the name n starts with the string k.
StartsWith(n, k) == Len(k) <= Len(n) /\ SubSeq(n, 1, Len(k)) = k

\* C19: get(id) on a source folder returns the name of a file of the
\* receiving bay that starts with str(id), and fails with KeyError when
\* str(id) is empty or no file of the receiving bay starts with it.
C19_GetResolves ==
    (last.op = "folder_get" /\ SourceFolder_check(folder))
    => LET k == Str(last.rec.arg)
           matches == {n \in folder.rbayFiles : StartsWith(n, k)}
       IN IF k = <<>> \/ matches = {}
          THEN last.res = KeyError
          ELSE /\ last.res = "ok"
               /\ last.ret[1] = "name"
               /\ last.ret[2] \in matches

\* C20: spawn on a path that check accepts succeeds and leaves the folder,
\* the document in manifest.json and the files of rbay and .tmp as they
\* were; after any spawn that succeeded check accepts the path.
C20_SpawnIdempotent ==
    [][last'.op = "spawn"
       => /\ SourceFolder_check(folder)
             => (last'.res = "ok" /\ folder' = folder)
          /\ last'.res = "ok" => SourceFolder_check(folder')]_vars

\* C23: get, values and search on a Catalog never change the manifest
\* file; on a Catalog without autocommit add and replace leave the file as
\* it is, and the file changes only in a commit() call.
C23_AutocommitFrame ==
    [][/\ last'.op \in {"get", "values", "search"} => file' = file
       /\ (last'.op \in {"add", "replace"} /\ ~autocommit[last'.h])
          => (file' = file /\ lockfile' = lockfile)
       /\ (file' # file /\ \A h \in Procs : ~autocommit[h])
          => last'.op = "commit"]_vars

\* C23 witness: an add on a Catalog without autocommit succeeded and the
\* manifest file still holds the records of before.
C23_Witness ==
    /\ last.op = "add"
    /\ last.res = "ok"
    /\ ~autocommit[last.h]
    /\ Load(file.data).ok
    /\ Len(Load(file.data).val) < Len(mf[last.h].m)

\* C24: revert() on an open Catalog whose manifest file holds a JSON array
\* succeeds, leaves the file as it is and makes the records in memory those
\* of the file.
C24_CatalogRevert ==
    [][(/\ last'.op = "revert"
        /\ pc[last'.h] = "live"
        /\ ~closeCalled[last'.h]
        /\ Load(file.data).ok)
       => /\ last'.res = "ok"
          /\ mf'[last'.h] = Manifest(Load(file.data).val)
          /\ file' = file]_vars

\* C24 with the Catalogs that hold no record left out.
C24_RevertNonEmpty ==
    [][(/\ last'.op = "revert"
        /\ pc[last'.h] = "live"
        /\ ~closeCalled[last'.h]
        /\ Len(mf[last'.h].m) > 0
        /\ Load(file.data).ok)
       => /\ last'.res = "ok"
          /\ mf'[last'.h] = Manifest(Load(file.data).val)
          /\ file' = file]_vars

\* C27: no call on a Catalog that was opened and on which close() was not
\* called fails with the ValueError of a closed Catalog.
C27_ClosedOnlyAfterClose ==
    [][(/\ last'.op \in CatalogOps
        /\ pc[last'.h] \in {"live", "commit"}
        /\ ~closeCalled[last'.h])
       => last'.res # ClosedHandle]_vars

\* C25: the sentinel is removed only by a close() (or the close() of
\* __exit__) on a lock-enabled Catalog that created it and on which close()
\* was not called before; a close() on a Catalog without lock or a repeated
\* close() leaves the sentinel as it is.
C25_SentinelOwnership ==
    [][/\ (lockfile /\ ~lockfile')
          => /\ last'.op \in {"close", "exit"}
             /\ pc[last'.h] = "live"
             /\ lock[last'.h]
             /\ ~closeCalled[last'.h]
       /\ (/\ last'.op \in {"close", "exit"}
           /\ (~lock[last'.h] \/ closeCalled[last'.h]))
          => lockfile' = lockfile]_vars

\* C25 witness: close() returned on a Catalog opened without lock while
\* another process holds an open lock-enabled Catalog, whose sentinel is
\* still there.
C25_Witness ==
    /\ last.op = "close"
    /\ last.res = "ok"
    /\ ~lock[last.h]
    /\ lockfile
    /\ \E g \in OpenLocked : g # last.h

\* C26: a construction that fails leaves the sentinel as it found it: one
\* that fails before or in the exclusive create changes nothing, and one
\* that fails in the load after its own exclusive create succeeded leaves
\* no sentinel behind.
C26_FailedOpenLockState ==
    [][(last'.op = "open" /\ last'.res \in {NotFound, LockHeld, Malformed})
       => IF last'.res = Malformed /\ lock[last'.h]
          THEN ~lockfile'
          ELSE lockfile' = lockfile]_vars

\* What the retrieval r is for the registered class cls: every field of r
\* is declared, every value is accepted by its field's validator, and every
\* required field is there.
Declared(cls) == DOMAIN cls.required \cup DOMAIN cls.optional

ValidOptions(cls, r) ==
    /\ DOMAIN r \subseteq Declared(cls)
    /\ \A f \in DOMAIN r \cap DOMAIN cls.required :
           Validator(cls.required[f], r[f])
    /\ \A f \in DOMAIN r \cap DOMAIN cls.optional :
           Validator(cls.optional[f], r[f])
    /\ DOMAIN cls.required \subseteq DOMAIN r

\* C21: validate returns true exactly for the retrievals whose fields are
\* all declared as required or optional, whose values are all accepted by
\* their validators and that hold every required field; with a field that
\* is not declared it returns false.
C21_Validate ==
    last.op = "validate"
    => LET cls == retriever.registry[last.rec.protocol]
           r == last.rec.retrieval
       IN  /\ last.res = "ok"
           /\ last.ret = BoolRet(ValidOptions(cls, r))
           /\ "spurious_field" \in DOMAIN r => last.ret = BoolRet(FALSE)

\* C21 witness: validate returned true for a retrieval that holds both
\* required fields and the optional field of a retriever.
C21_Witness ==
    /\ last.op = "validate"
    /\ last.ret = BoolRet(TRUE)
    /\ Cardinality(DOMAIN retriever.registry[last.rec.protocol].required) = 2
    /\ Cardinality(DOMAIN last.rec.retrieval) = 3

\* C21 witness: validate returned false for a retrieval that lacks one of
\* the required fields and holds nothing that is wrong.
C21_WitnessMissing ==
    /\ last.op = "validate"
    /\ last.ret = BoolRet(FALSE)
    /\ LET cls == retriever.registry[last.rec.protocol]
           r == last.rec.retrieval
       IN  /\ DOMAIN r \subseteq Declared(cls)
           /\ DOMAIN r # {}
           /\ \A f \in DOMAIN r : r[f][1] = "int"

\* One of the orders in which the keys S of a dict may come.
RECURSIVE SomeOrder(_)
SomeOrder(S) ==
    IF S = {} THEN <<>>
    ELSE LET x == CHOOSE y \in S : TRUE IN <<x>> \o SomeOrder(S \ {x})

\* C22: run raises InvalidRetrievalOptionsError and makes no call of _run
\* when validate is false for the retrieval, and otherwise makes one call
\* of _run and returns what _run returns.
C22_Run ==
    [][last'.op = "run"
       => LET cls == retriever.registry[last'.rec.protocol]
              r == last'.rec.retrieval
          IN  IF ~validate(cls, r, SomeOrder(DOMAIN r))
              THEN /\ last'.res = InvalidRetrievalOptionsError
                   /\ last'.ret = NoRet
                   /\ retriever'.runs = retriever.runs
              ELSE /\ last'.res = "ok"
                   /\ last'.ret = _run(cls, r, None)
                   /\ retriever'.runs = retriever.runs + 1]_vars

\* C22 witness: run returned the file and the media type of _run for a
\* retrieval with fields, after a run that was refused.
C22_Witness ==
    /\ last.op = "run"
    /\ last.res = "ok"
    /\ last.ret = <<"pair", <<"pretend this is a temp file", "text/html">>>>
    /\ DOMAIN last.rec.retrieval # {}
    /\ retriever.runs = 1

\* C22 witness: run was refused for a retrieval with a spurious field and
\* _run was never called.
C22_WitnessRefused ==
    /\ last.op = "run"
    /\ last.res = InvalidRetrievalOptionsError
    /\ "spurious_field" \in DOMAIN last.rec.retrieval
    /\ retriever.runs = 0

====
